---- MODULE Spec2Model ----
(***************************************************************************)
(* Model of the vscode-linter-api contract.                                *)
(*                                                                         *)
(*  - out/index.js builds the runtime LinterOffenseSeverity object, one    *)
(*    statement at a time (lines 9-12).                                    *)
(*  - out/index.d.ts and the second declaration file (unnamed/part_000)    *)
(*    declare the shapes Linter, LinterConfig and LinterOffense.  A value  *)
(*    is checked against a declared shape the way the TypeScript compiler  *)
(*    checks it: structurally, with the excess-property check when the     *)
(*    value is a fresh object literal.                                     *)
(*  - an accepted adapter is invoked; how the result is delivered is       *)
(*    fixed by the declared return type of the invoked function.           *)
(***************************************************************************)
EXTENDS Integers, Sequences, FiniteSets, TLC

VARIABLES pc, LinterOffenseSeverity, decl, subject, accepted, valid, call

vars == <<pc, LinterOffenseSeverity, decl, subject, accepted, valid, call>>

-----------------------------------------------------------------------------
(* Bounds *)

\* position fields of a candidate offense are drawn from -1..MaxPos
MaxPos == 0

-----------------------------------------------------------------------------
(* JavaScript values and property access (out/index.js) *)

NumV(n) == [t |-> "number", n |-> n, s |-> ""]
StrV(s) == [t |-> "string", n |-> 0, s |-> s]
Undefined == [t |-> "undefined", n |-> 0, s |-> ""]

Digit == <<"0", "1", "2", "3", "4", "5", "6", "7", "8", "9">>

RECURSIVE NumberToString(_)
NumberToString(n) ==
    IF n < 10 THEN Digit[n + 1]
    ELSE NumberToString(n \div 10) \o Digit[(n % 10) + 1]

\* a property key is always a string: a number used as a key is converted
ToPropertyKey(v) ==
    CASE v.t = "string" -> v.s
      [] v.t = "number" -> NumberToString(v.n)
      [] OTHER -> "undefined"

EmptyObject == [k \in {} |-> Undefined]

Put(o, key, v) == [k \in (DOMAIN o) \cup {key} |-> IF k = key THEN v ELSE o[k]]

Get(o, key) == IF key \in DOMAIN o THEN o[key] ELSE Undefined

\* an enum numbered from one
EnumMembersFromOne ==
    << [name |-> "error", value |-> 1],
       [name |-> "warning", value |-> 2],
       [name |-> "information", value |-> 3],
       [name |-> "hint", value |-> 4] >>

\* the four statements of the enum's initialiser, in source order
EnumMembers ==
    << [name |-> "error", value |-> 0],
       [name |-> "warning", value |-> 1],
       [name |-> "information", value |-> 2],
       [name |-> "hint", value |-> 3] >>

\* the enum as declared for the compiler
DeclaredEnum ==
    [error |-> 0, warning |-> 1, information |-> 2, hint |-> 3]

\* a build that emits the forward mapping only
EnumAssignForwardOnly(o, m) == Put(o, m.name, NumV(m.value))

\* E[E["name"] = value] = "name"
EnumAssign(o, m) ==
    Put(Put(o, m.name, NumV(m.value)),
        ToPropertyKey(NumV(m.value)), StrV(m.name))

EnumLines == <<"line9", "line10", "line11", "line12">>

LineIndex(p) == CHOOSE i \in 1..Len(EnumLines) : EnumLines[i] = p

NextLine(p) ==
    IF LineIndex(p) = Len(EnumLines) THEN "done" ELSE EnumLines[LineIndex(p) + 1]

-----------------------------------------------------------------------------
(* Declared shapes (out/index.d.ts, unnamed/part_000) *)

Declarations == {"out/index.d.ts", "unnamed/part_000"}

AdapterOps ==
    {"getOffenses", "getIgnoreEolPragma", "getIgnoreLinePragma",
     "getIgnoreFilePragma", "parseFixOutput"}

\* how each declaration says an operation delivers its result
DeclaredReturn(d) ==
    IF d = "out/index.d.ts"
    THEN [op \in AdapterOps |-> "Promise"]
    ELSE [op \in AdapterOps |-> "value"]

\* the implementation style whose function type matches the declared one
ImplFor(d, op) == IF DeclaredReturn(d)[op] = "Promise" THEN "async" ELSE "sync"

LinterTEolRequired ==
    [req |-> {"getOffenses", "getIgnoreEolPragma"},
     opt |-> {"getIgnoreLinePragma", "getIgnoreFilePragma", "parseFixOutput"}]

LinterT ==
    [req |-> {"getOffenses"},
     opt |-> {"getIgnoreEolPragma", "getIgnoreLinePragma",
              "getIgnoreFilePragma", "parseFixOutput"}]

LinterConfigTypeT ==
    [req |-> {"name", "command", "configFiles", "enabled", "languages",
              "capabilities", "url", "when"},
     opt |-> {"args", "importPath"}]

\* { [key in keyof T]: unknown }: the same keys with the same optionality
MappedOverKeys(T) == [req |-> T.req, opt |-> T.opt]

\* A & B
Intersection(A, B) ==
    [req |-> A.req \cup B.req,
     opt |-> (A.opt \cup B.opt) \ (A.req \cup B.req)]

LinterConfigT == Intersection(LinterConfigTypeT, MappedOverKeys(LinterConfigTypeT))

LinterOffenseT(d) ==
    [req |-> {"code", "message", "source", "uri", "severity", "lineStart",
              "columnStart", "lineEnd", "columnEnd", "correctable"},
     opt |-> IF d = "out/index.d.ts"
             THEN {"docsUrl", "inlineFix", "meta"}
             ELSE {"docsUrl"}]

\* the two members of the inlineFix union
InlineFixT ==
    { [req |-> {"replacement", "start", "end"}, opt |-> {}],
      [req |-> {"replacement", "offset"}, opt |-> {}] }

\* the capability names listed in the documentation of `capabilities`
DocumentedCapabilities ==
    {"ignore-all", "ignore-line", "ignore-eol", "fix-one", "fix-category",
     "fix-all"}

KnownKeys(Ts) == UNION {T.req \cup T.opt : T \in Ts}

\* a checker that treats every shape as closed
AcceptsClosed(keys, Ts, fresh) ==
    /\ \E T \in Ts : T.req \subseteq keys
    /\ keys \subseteq KnownKeys(Ts)

\* keys: the property names of the value; Ts: the members of the target
\* (a singleton for a plain object type); fresh: the value is an object
\* literal written at the place of the check
Accepts(keys, Ts, fresh) ==
    /\ \E T \in Ts : T.req \subseteq keys
    /\ fresh => keys \subseteq KnownKeys(Ts)

-----------------------------------------------------------------------------
(* Candidate values *)

ExtraKey == "timeout"

Names == {"luacheck", "rubocop"}

FixFields == {"replacement", "offset", "start", "end"}

Positions == (-1)..MaxPos

NoSubject ==
    [kind |-> "none", keys |-> {}, fresh |-> FALSE, impl |-> "-",
     caps |-> {}, wrong |-> {}, pos |-> <<0, 0, 0, 0>>, source |-> "",
     name |-> "", fix |-> {}]

AcceptsLinter(s, d) ==
    /\ Accepts(s.keys, {LinterT}, s.fresh)
    /\ \A op \in s.keys \cap AdapterOps : s.impl = ImplFor(d, op)

AcceptsConfig(s) ==
    /\ Accepts(s.keys, {LinterConfigT}, s.fresh)
    /\ s.wrong \cap KnownKeys({LinterConfigT}) = {}

AcceptsOffense(s, d) ==
    /\ Accepts(s.keys, {LinterOffenseT(d)}, s.fresh)
    /\ ("inlineFix" \in s.keys /\ "inlineFix" \in KnownKeys({LinterOffenseT(d)}))
           => Accepts(s.fix, InlineFixT, s.fresh)

\* "Must be zero-indexed and equal to or greater than zero", start fields only
PositionObligationStartOnly(s) == s.pos[1] >= 0 /\ s.pos[2] >= 0

\* "Must be zero-indexed and equal to or greater than zero", four times
PositionObligation(s) == \A i \in 1..4 : s.pos[i] >= 0

\* no obligation on the source
SourceObligationNone(s) == s.source \in Names

\* "This must match the linter name specified on the extension configuration"
SourceObligation(s) == s.source = s.name

-----------------------------------------------------------------------------
(* Actions *)

Init ==
    /\ pc = "line13"
    /\ LinterOffenseSeverity = EmptyObject
    /\ decl \in Declarations
    /\ subject = NoSubject
    /\ accepted = FALSE
    /\ valid = FALSE
    /\ call = [op |-> "", state |-> "idle", direct |-> FALSE]

\* line 13: exports.LinterOffenseSeverity || (exports.LinterOffenseSeverity = {})
CreateEnumObject ==
    /\ pc = "line13"
    /\ LinterOffenseSeverity' = EmptyObject
    /\ pc' = "line9"
    /\ UNCHANGED <<decl, subject, accepted, valid, call>>

\* lines 9-12
EnumStatement ==
    /\ pc \in {EnumLines[i] : i \in 1..Len(EnumLines)}
    /\ LinterOffenseSeverity' =
           EnumAssign(LinterOffenseSeverity, EnumMembers[LineIndex(pc)])
    /\ pc' = NextLine(pc)
    /\ UNCHANGED <<decl, subject, accepted, valid, call>>

\* a value is given the type Linter
CheckLinter ==
    /\ subject.kind = "none"
    /\ \E keys \in SUBSET (AdapterOps \cup {ExtraKey}),
          impl \in {"async", "sync"}, fresh \in BOOLEAN :
          LET s == [NoSubject EXCEPT !.kind = "Linter", !.keys = keys,
                                     !.impl = impl, !.fresh = fresh]
          IN /\ subject' = s
             /\ accepted' = AcceptsLinter(s, decl)
             /\ valid' = AcceptsLinter(s, decl)
    /\ UNCHANGED <<pc, LinterOffenseSeverity, decl, call>>

\* a value is given the type LinterConfig
CheckConfig ==
    /\ subject.kind = "none"
    /\ \E dropped \in SUBSET {"url", "args", "importPath"},
          extras \in SUBSET {ExtraKey},
          caps \in SUBSET {"fix-one", "ignore-eol", "lint-on-save"},
          wrong \in {{}, {"enabled"}},
          name \in Names, fresh \in BOOLEAN :
          LET s == [NoSubject EXCEPT
                       !.kind = "LinterConfig",
                       !.keys = (KnownKeys({LinterConfigTypeT}) \ dropped)
                                    \cup extras,
                       !.caps = caps, !.wrong = wrong, !.name = name,
                       !.fresh = fresh]
          IN /\ subject' = s
             /\ accepted' = AcceptsConfig(s)
             /\ valid' = AcceptsConfig(s)
    /\ UNCHANGED <<pc, LinterOffenseSeverity, decl, call>>

\* the adapter registered as `name` returns a record as a LinterOffense
CheckOffense ==
    /\ subject.kind = "none"
    /\ \E dropped \in {{}, {"severity"}}, hasFix \in BOOLEAN,
          fix \in SUBSET FixFields, pos \in Positions \X Positions \X Positions \X Positions,
          source \in Names, name \in Names, fresh \in BOOLEAN :
          LET s == [NoSubject EXCEPT
                       !.kind = "LinterOffense",
                       !.keys = (LinterOffenseT(decl).req \ dropped)
                                    \cup (IF hasFix THEN {"inlineFix"} ELSE {}),
                       !.fix = IF hasFix THEN fix ELSE {},
                       !.pos = pos, !.source = source, !.name = name,
                       !.fresh = fresh]
          IN /\ subject' = s
             /\ accepted' = AcceptsOffense(s, decl)
             /\ valid' = (/\ AcceptsOffense(s, decl)
                          /\ PositionObligation(s)
                          /\ SourceObligation(s))
    /\ UNCHANGED <<pc, LinterOffenseSeverity, decl, call>>

\* an operation of the accepted adapter is called
Invoke ==
    /\ pc = "done"
    /\ call.state = "idle"
    /\ subject.kind = "Linter"
    /\ accepted
    /\ \E op \in subject.keys \cap AdapterOps :
          call' = IF DeclaredReturn(decl)[op] = "Promise"
                  THEN [op |-> op, state |-> "pending", direct |-> FALSE]
                  ELSE [op |-> op, state |-> "returned", direct |-> TRUE]
    /\ UNCHANGED <<pc, LinterOffenseSeverity, decl, subject, accepted, valid>>

\* the promise of a pending call settles
Settle ==
    /\ call.state = "pending"
    /\ call' = [call EXCEPT !.state = "returned"]
    /\ UNCHANGED <<pc, LinterOffenseSeverity, decl, subject, accepted, valid>>

\* the caller has consumed the result
Complete ==
    /\ call.state = "returned"
    /\ call' = [op |-> "", state |-> "idle", direct |-> FALSE]
    /\ UNCHANGED <<pc, LinterOffenseSeverity, decl, subject, accepted, valid>>

\* the checked value goes out of scope
Discard ==
    /\ subject.kind # "none"
    /\ call.state = "idle"
    /\ subject' = NoSubject
    /\ accepted' = FALSE
    /\ valid' = FALSE
    /\ UNCHANGED <<pc, LinterOffenseSeverity, decl, call>>

Next ==
    \/ CreateEnumObject
    \/ EnumStatement
    \/ CheckLinter
    \/ CheckConfig
    \/ CheckOffense
    \/ Invoke
    \/ Settle
    \/ Complete
    \/ Discard

Spec == Init /\ [][Next]_vars

-----------------------------------------------------------------------------
(* Properties *)

SeverityNames == {"error", "warning", "information", "hint"}

RequiredWithExtras(s) ==
    /\ s.kind = "LinterConfig"
    /\ KnownKeys({LinterConfigT}) \subseteq s.keys
    /\ s.wrong = {}
    /\ ExtraKey \in s.keys

HasOffsetShape(s) == "offset" \in s.fix
HasRangeShape(s) == {"start", "end"} \subseteq s.fix

\* C1: once the module is loaded, looking up error, warning, information and
\* hint on the runtime enum object yields 0, 1, 2 and 3, no other key of the
\* object maps to a number, and the declared enum has the same four ordinals.
C1_SeverityOrdinals ==
    pc = "done" =>
        LET Expected == [error |-> 0, warning |-> 1, information |-> 2, hint |-> 3]
        IN /\ \A n \in DOMAIN Expected :
                  Get(LinterOffenseSeverity, n) = NumV(Expected[n])
           /\ \A k \in DOMAIN LinterOffenseSeverity :
                  LinterOffenseSeverity[k].t = "number" => k \in DOMAIN Expected
           /\ DeclaredEnum = Expected

C1_Witness ==
    /\ pc = "done"
    /\ Get(LinterOffenseSeverity, "hint") = NumV(3)
    /\ Get(LinterOffenseSeverity, "error") = NumV(0)

\* C10: once the module is loaded the runtime enum object maps each member
\* name to its ordinal and each ordinal back to its name, the two lookups
\* undo one another in both directions, and the four ordinals are distinct.
C10_ReverseMapping ==
    pc = "done" =>
        /\ \A n \in SeverityNames :
               Get(LinterOffenseSeverity,
                   ToPropertyKey(Get(LinterOffenseSeverity, n))) = StrV(n)
        /\ \A i \in 0..3 :
               Get(LinterOffenseSeverity,
                   ToPropertyKey(Get(LinterOffenseSeverity,
                                     ToPropertyKey(NumV(i))))) = NumV(i)
        /\ Cardinality({Get(LinterOffenseSeverity, n) : n \in SeverityNames}) = 4
        /\ Cardinality(DOMAIN LinterOffenseSeverity) = 8

C10_Witness ==
    /\ pc = "done"
    /\ Get(LinterOffenseSeverity, "2") = StrV("information")
    /\ Get(LinterOffenseSeverity, "information") = NumV(2)

\* C2: every offense accepted by the LinterOffense shape of out/index.d.ts
\* that carries an inlineFix has exactly one of the offset field and the
\* start/end fields (never both, never neither).
C2_InlineFixExclusive ==
    (/\ decl = "out/index.d.ts"
     /\ subject.kind = "LinterOffense"
     /\ accepted
     /\ "inlineFix" \in subject.keys)
        => (HasOffsetShape(subject) # HasRangeShape(subject))

\* C3: under either declaration, a value whose functions have the declared
\* function types is accepted as a Linter exactly when it has getOffenses,
\* whichever of the other four operations it has.
C3_OnlyGetOffensesMandatory ==
    (/\ subject.kind = "Linter"
     /\ subject.keys \subseteq AdapterOps
     /\ \A op \in subject.keys : subject.impl = ImplFor(decl, op))
        => (accepted <=> "getOffenses" \in subject.keys)

C3_Witness ==
    /\ subject.kind = "Linter"
    /\ subject.keys = {"getOffenses", "parseFixOutput"}
    /\ accepted

\* C5 (as stated): a configuration record with every known field, valid
\* values and an unknown extra key is accepted as a LinterConfig.
C5_ExtraKeysAccepted ==
    RequiredWithExtras(subject) => accepted

\* C5 (amended): such a record is accepted exactly when it is not a fresh
\* object literal; written as a literal of type LinterConfig it is rejected.
C5_ExtraKeysAcceptedUnlessFresh ==
    RequiredWithExtras(subject) => (accepted <=> ~subject.fresh)

C5_Witness ==
    /\ RequiredWithExtras(subject)
    /\ ~subject.fresh
    /\ accepted

C7_AlwaysAsynchronous ==
    call.state = "returned" => ~call.direct

C9_CapabilitiesClosed ==
    (subject.kind = "LinterConfig" /\ accepted)
        => subject.caps \subseteq DocumentedCapabilities

====
